---- MODULE Spec2Model ----
(***************************************************************************)
(* Flow Coordination Core of the Clara virtual receptionist.               *)
(*                                                                         *)
(* The backend keeps one FlowSession per room (flow_manager.py), one       *)
(* process-wide AgentState (agent_state.py), a one-time-code store         *)
(* (OTPManager) and a single-slot signal mailbox that the browser client   *)
(* polls (GET /get_signal, POST /clear_signal).                            *)
(*                                                                         *)
(* Definitions marked "from the specification" model backend code whose    *)
(* text is not part of the repository snapshot (flow_signal.py, the        *)
(* /flow/* request handlers); everything else is translated from the       *)
(* Python and TypeScript sources.                                          *)
(***************************************************************************)
EXTENDS Integers, Sequences, FiniteSets, TLC

VARIABLES
    registry,          \* ids of the FlowSessions that exist (Session Registry)
    flow_sessions,     \* [SessionIds -> FlowSession], fresh where not registered
    agent_state,       \* the process-wide AgentState
    otp_store,         \* OTPManager.otp_store: [Phones -> entry]
    signal,            \* the mailbox slot: a signal name or None
    host_notification, \* per session: outcome of the host paging attempt
    posted,            \* the signal the last step posted and for which session
    no_match_run,      \* per session: no-match capture results of its FaceRecognition stay
    manual_entered,    \* per session: ManualVerification has been entered
    heard,             \* the utterance the last step heard while asleep, and its reply
    matcher_error,     \* the last step handled a capture whose matcher or store failed
    client,            \* VideoCapture: its React state, refs and camera
    polls,             \* VideoCapture: the checkSignal calls in flight
    scan_timers,       \* VideoCapture: pending setTimeout(scanFace(true)) closures
    client_log         \* posts counted, instances read and cleared, frames sent

vars == <<registry, flow_sessions, agent_state, otp_store, signal,
          host_notification, posted, no_match_run, manual_entered, heard,
          matcher_error,
          client, polls, scan_timers, client_log>>

core_vars == <<registry, flow_sessions, agent_state, otp_store,
               host_notification, no_match_run, manual_entered, heard,
               matcher_error>>

client_vars == <<client, polls, scan_timers, client_log>>

----------------------------------------------------------------------------
(* Bounds of the model *)

\* seconds by which one AdvanceTime step moves the clock
TimeStep == 150

\* idle ages beyond this are not distinguished
MaxIdle == 150

\* one-time-code ages beyond this are not distinguished
MaxOtpAge == 450

\* the no-match counter of the scenario monitor saturates here
MaxRun == 4

\* checkSignal calls that may be in flight together
MaxPolls == 2

\* signals the core posts in one run of the client
MaxPosts == 2

\* scanFace timers that may be pending together
MaxTimers == 2

\* activations of employee mode the log tells apart
MaxActivations == 2

\* no-match frames the log counts after an activation
MaxFrames == 4

\* the client's count of failed scans saturates here
MaxFaceScans == 4

\* VideoCapture: frames a client sends before it stops retrying
maxFaceScanAttempts == 3

----------------------------------------------------------------------------
(* Program constants *)

\* AgentState.auto_sleep_timeout, seconds
auto_sleep_timeout == 60

\* OTPManager.otp_expiry, seconds
otp_expiry == 300

\* OTPManager.verify_otp: wrong codes tolerated per issued code
max_otp_attempts == 3

\* the verification-attempt maximum of the transition rules
max_verification_attempts == 3

None == "None"

\* AgentState.last_activity before the first wake (Python None), as an age
NoActivity == -1

SessionIds == {"roomA", "roomB"}

\* the rooms whose clients connect
Rooms == {"roomA"}

\* class FlowState(Enum)
IDLE == "idle"
USER_CLASSIFICATION == "user_classification"
FACE_RECOGNITION == "face_recognition"
MANUAL_VERIFICATION == "manual_verification"
CREDENTIAL_CHECK == "credential_check"
FACE_REGISTRATION == "face_registration"
EMPLOYEE_VERIFIED == "employee_verified"
VISITOR_INFO_COLLECTION == "visitor_info_collection"
VISITOR_FACE_CAPTURE == "visitor_face_capture"
HOST_NOTIFICATION == "host_notification"
FLOW_END == "flow_end"

FlowState ==
    {IDLE, USER_CLASSIFICATION, FACE_RECOGNITION, MANUAL_VERIFICATION,
     CREDENTIAL_CHECK, FACE_REGISTRATION, EMPLOYEE_VERIFIED,
     VISITOR_INFO_COLLECTION, VISITOR_FACE_CAPTURE, HOST_NOTIFICATION, FLOW_END}

\* the values the classifier hands to handle_user_classification
UserTypes == {"employee", "visitor", "candidate"}

----------------------------------------------------------------------------
(* The employee store and the face encodings (external collaborators) *)

NoEmployee == [employee_id |-> None, phone |-> None]

\* rows of the employee table
EmployeeTable ==
    {[employee_id |-> "E100", phone |-> "P100"],
     [employee_id |-> "E200", phone |-> "P200"]}

\* ids with a stored face encoding, each with a row in the table
EncodedIds == {"E100", "E200"}

\* ids a person may type or the agent may pass to a tool
SubmittedIds == {"E100", "E999"}

Phones == {"P100", "P200"}

\* the code generate_otp draws, and the codes a person may type
IssuedOtp == "111111"

OtpCodes == {"111111", "222222"}

get_employee_by_id(employee_id) ==
    IF \E e \in EmployeeTable : e.employee_id = employee_id
    THEN CHOOSE e \in EmployeeTable : e.employee_id = employee_id
    ELSE NoEmployee

----------------------------------------------------------------------------
(* FlowSession *)

EmptyVisitorData == [name |-> "", phone |-> "", purpose |-> "", host |-> ""]

\* FlowSession.__init__
NewFlowSession ==
    [current_state |-> IDLE,
     user_type |-> None,
     employee_data |-> NoEmployee,
     visitor_data |-> EmptyVisitorData,
     verification_attempts |-> 0]

\* FlowSession.transition_to
transition_to(session, new_state) ==
    [session EXCEPT !.current_state = new_state]

----------------------------------------------------------------------------
(* AgentState *)

\* AgentState.__init__; last_activity is kept as its age in seconds
NewAgentState ==
    [is_awake |-> FALSE, last_activity |-> NoActivity, session_id |-> None]

wake_up(st, session_id) ==
    [st EXCEPT !.is_awake = TRUE, !.session_id = session_id, !.last_activity = 0]

sleep(st) ==
    [st EXCEPT !.is_awake = FALSE, !.session_id = None]

update_activity(st) ==
    [st EXCEPT !.last_activity = 0]

\* the idle_time > auto_sleep_timeout test of check_auto_sleep
idle_exceeded(st) ==
    /\ st.is_awake
    /\ st.last_activity # NoActivity
    /\ st.last_activity > auto_sleep_timeout

\* AgentState.check_auto_sleep: the state it leaves
check_auto_sleep(st) ==
    IF idle_exceeded(st) THEN sleep(st) ELSE st

----------------------------------------------------------------------------
(* Wake word detection *)

LowerCase(c) ==
    CASE c = "C" -> "c"
      [] c = "L" -> "l"
      [] c = "A" -> "a"
      [] c = "R" -> "r"
      [] c = "H" -> "h"
      [] c = "E" -> "e"
      [] c = "Y" -> "y"
      [] OTHER -> c

lower(text) == [i \in 1..Len(text) |-> LowerCase(text[i])]

\* Python's "needle in text"
Contains(text, needle) ==
    \E i \in 1..(Len(text) - Len(needle) + 1) :
        SubSeq(text, i, i + Len(needle) - 1) = needle

\* the Latin-script entries of WAKE_WORDS
WAKE_WORDS ==
    {<<"c","l","a","r","a">>,
     <<"h","e","y"," ","c","l","a","r","a">>,
     <<"h","i"," ","c","l","a","r","a">>}

\* a check that forgets text.lower()
check_wake_word_case_sensitive(text) ==
    \E wake_word \in WAKE_WORDS : Contains(text, wake_word)

check_wake_word(text) ==
    \E wake_word \in WAKE_WORDS : Contains(lower(text), wake_word)

\* what a person may say
Texts ==
    {<<"H","e","y"," ","C","l","a","r","a">>,
     <<"C","L","A","R","A","!">>,
     <<"h","e","y"," ","c","l","a","r","k">>,
     <<"h","e","l","l","o">>}

----------------------------------------------------------------------------
(* Signal mailbox, from the specification; one slot, as the client's       *)
(* GET /get_signal and the core's post_signal(name, payload) carry no      *)
(* session id                                                              *)

SignalNames ==
    {"start_face_capture", "stop_face_capture", "start_visitor_info",
     "start_visitor_photo"}

\* a post that keeps a signal nobody has consumed
post_signal_keeps_unread(slot, name) == IF slot = None THEN name ELSE slot

\* post: overwrite whatever is in the slot
post_signal(slot, name) == name

\* peek: read without clearing
peek_signal(slot) == slot

\* a consume that leaves the slot as it is
clear_signal_keeps(slot) == slot

\* consume: clear the slot
clear_signal(slot) == None

----------------------------------------------------------------------------
NoPost == [name |-> None, session |-> None]

NoUtterance == [text |-> <<>>, should_respond |-> FALSE]

\* VideoCapture after mount, camera granted: mode 'idle', scanning disabled,
\* 'Waiting for employee classification...', the polling interval running
NewClient ==
    [mode |-> "idle", scanning_enabled |-> FALSE, status |-> "idle",
     faceScanAttempts |-> 0, camera_live |-> TRUE, polling |-> TRUE]

\* no checkSignal call in this slot
NoPoll == [phase |-> "none", name |-> None, id |-> 0, mode |-> "idle", status |-> "idle"]

NewClientLog ==
    [posts |-> 0, seen |-> {}, cleared |-> {}, got_start |-> FALSE,
     submitted |-> FALSE, directive |-> FALSE, activations |-> 0,
     no_match_frames |-> 0]

TypeOK ==
    /\ registry \subseteq SessionIds
    /\ \A s \in SessionIds :
        /\ flow_sessions[s].current_state \in FlowState
        /\ flow_sessions[s].user_type \in UserTypes \cup {None}
        /\ flow_sessions[s].verification_attempts \in Nat
    /\ agent_state.is_awake \in BOOLEAN
    /\ agent_state.session_id \in SessionIds \cup {None}
    /\ signal \in SignalNames \cup {None}

Init ==
    /\ registry = {}
    /\ flow_sessions = [s \in SessionIds |-> NewFlowSession]
    /\ agent_state = NewAgentState
    /\ otp_store = [p \in Phones |-> [otp |-> None, created_at |-> 0, attempts |-> 0]]
    /\ signal = None
    /\ host_notification = [s \in SessionIds |-> None]
    /\ posted = NoPost
    /\ no_match_run = [s \in SessionIds |-> 0]
    /\ manual_entered = [s \in SessionIds |-> FALSE]
    /\ heard = NoUtterance
    /\ matcher_error = FALSE
    /\ client = NewClient
    /\ polls = [k \in 1..MaxPolls |-> NoPoll]
    /\ scan_timers = {}
    /\ client_log = NewClientLog

----------------------------------------------------------------------------
(* Flow transitions *)

\* a flow manager that starts face capture for whoever has been classified
classification_signal_any_user(user_type) ==
    IF user_type \in {"employee", "visitor"} THEN "start_face_capture" ELSE None

\* the signal the flow manager posts when a user has been classified
classification_signal(user_type) ==
    IF user_type = "employee" THEN "start_face_capture" ELSE None

\* handle_user_classification without its first assignment
handle_user_classification_unrecorded(session, user_type) ==
    IF user_type = "employee"
    THEN transition_to(session, FACE_RECOGNITION)
    ELSE IF user_type = "visitor"
         THEN transition_to(session, VISITOR_INFO_COLLECTION)
         ELSE transition_to(session, USER_CLASSIFICATION)

\* handle_user_classification: the session it saves
handle_user_classification(session, user_type) ==
    LET classified == [session EXCEPT !.user_type = user_type]
    IN  IF user_type = "employee"
        THEN transition_to(classified, FACE_RECOGNITION)
        ELSE IF user_type = "visitor"
             THEN transition_to(classified, VISITOR_INFO_COLLECTION)
             ELSE transition_to(classified, USER_CLASSIFICATION)

\* get_flow_session(): the session the agent is awake for, if it exists
HasFlowSession ==
    /\ agent_state.session_id # None
    /\ agent_state.session_id \in registry

Saturate(n) == IF n < MaxRun THEN n + 1 ELSE MaxRun

\* the scenario monitor: `failed` holds the sessions for which the step handled
\* a no-match capture result; the run is forgotten once the session is
\* outside FaceRecognition, the ManualVerification mark when the session ends
ObserveFlow(failed) ==
    /\ no_match_run' =
        [s \in SessionIds |->
            IF s \in failed THEN Saturate(no_match_run[s])
            ELSE IF flow_sessions'[s].current_state = FACE_RECOGNITION
                 THEN no_match_run[s]
                 ELSE 0]
    /\ manual_entered' =
        [s \in SessionIds |->
            /\ s \in registry'
            /\ \/ manual_entered[s]
               \/ flow_sessions'[s].current_state = MANUAL_VERIFICATION]
    /\ UNCHANGED client_vars

\* the monitor in a step that is not an utterance heard asleep
Observe(failed) ==
    /\ ObserveFlow(failed)
    /\ heard' = NoUtterance
    /\ matcher_error' = FALSE

\* a step that posts the signal `name` for session s (or nothing, when None)
Post(name, s) ==
    /\ signal' = IF name = None THEN signal ELSE post_signal(signal, name)
    /\ posted' = IF name = None THEN NoPost ELSE [name |-> name, session |-> s]

\* process_input while asleep: only a wake phrase is accepted, anything else
\* is dropped without a reply; on a wake phrase the session is
\* created on first contact and leaves Idle (getOrCreate and Idle ->
\* Classification, from the specification)
WakeUtterance(s, text) ==
    /\ ~agent_state.is_awake
    /\ IF check_wake_word(text)
       THEN /\ agent_state' = wake_up(agent_state, s)
            /\ registry' = registry \cup {s}
            /\ flow_sessions' =
                [flow_sessions EXCEPT ![s] =
                    IF @.current_state = IDLE
                    THEN transition_to(@, USER_CLASSIFICATION)
                    ELSE @]
       ELSE UNCHANGED <<agent_state, registry, flow_sessions>>
    /\ heard' = [text |-> text, should_respond |-> check_wake_word(text)]
    /\ matcher_error' = FALSE
    /\ posted' = NoPost
    /\ UNCHANGED <<otp_store, signal, host_notification>>
    /\ ObserveFlow({})

\* process_input while awake, the utterance being classified by the flow manager
ClassifyUtterance(s, user_type) ==
    /\ agent_state.is_awake
    /\ s \in registry
    /\ flow_sessions[s].current_state = USER_CLASSIFICATION
    /\ agent_state' = update_activity(agent_state)
    /\ flow_sessions' =
        [flow_sessions EXCEPT ![s] = handle_user_classification(@, user_type)]
    /\ Post(classification_signal(user_type), s)
    /\ UNCHANGED <<registry, otp_store, host_notification>>
    /\ Observe({})

\* process_input while awake, any other utterance: only the activity is updated
OtherUtterance(s) ==
    /\ agent_state.is_awake
    /\ agent_state' = update_activity(agent_state)
    /\ registry' = registry \cup {s}
    /\ posted' = NoPost
    /\ UNCHANGED <<flow_sessions, otp_store, signal, host_notification>>
    /\ Observe({})

----------------------------------------------------------------------------
(* Employee branch: face recognition *)

\* what the camera frame shows
Images ==
    [kind : {"no_face", "not_encodable", "no_match", "error"}, emp : {None}]
        \cup [kind : {"match"}, emp : EncodedIds]

\* a matcher whose exception looks like a match of the first employee
verify_employee_face_error_matches(image) ==
    IF image.kind \in {"error", "match"}
    THEN [success |-> TRUE,
          employee |-> get_employee_by_id(IF image.kind = "match"
                                          THEN image.emp ELSE "E100"),
          message |-> ""]
    ELSE IF image.kind = "no_face"
    THEN [success |-> FALSE, employee |-> NoEmployee, message |-> "No face detected"]
    ELSE IF image.kind = "not_encodable"
    THEN [success |-> FALSE, employee |-> NoEmployee, message |-> "Could not encode face"]
    ELSE [success |-> FALSE, employee |-> NoEmployee, message |-> "No match found"]

\* a matcher that reports the first known encoding instead of the best match
verify_employee_face_first_known(image) ==
    IF image.kind = "error"
    THEN [success |-> FALSE, employee |-> NoEmployee, message |-> "exception"]
    ELSE IF image.kind = "no_face"
    THEN [success |-> FALSE, employee |-> NoEmployee, message |-> "No face detected"]
    ELSE IF image.kind = "not_encodable"
    THEN [success |-> FALSE, employee |-> NoEmployee, message |-> "Could not encode face"]
    ELSE IF image.kind = "match"
    THEN [success |-> TRUE, employee |-> get_employee_by_id("E100"), message |-> ""]
    ELSE [success |-> FALSE, employee |-> NoEmployee, message |-> "No match found"]

\* verify_employee_face: the dict it returns
verify_employee_face(image) ==
    IF image.kind = "error"
    THEN [success |-> FALSE, employee |-> NoEmployee, message |-> "exception"]
    ELSE IF image.kind = "no_face"
    THEN [success |-> FALSE, employee |-> NoEmployee, message |-> "No face detected"]
    ELSE IF image.kind = "not_encodable"
    THEN [success |-> FALSE, employee |-> NoEmployee, message |-> "Could not encode face"]
    ELSE IF image.kind = "match"
    THEN [success |-> TRUE, employee |-> get_employee_by_id(image.emp), message |-> ""]
    ELSE [success |-> FALSE, employee |-> NoEmployee, message |-> "No match found"]

\* a policy that counts the attempt being decided
decide_counting_current(outcome, attempts, max) ==
    IF outcome = "match" THEN "SUCCESS"
    ELSE IF attempts + 1 < max THEN "RETRY"
    ELSE "ESCALATE"

\* a policy that allows one retry too many
decide_retry_at_max(outcome, attempts, max) ==
    IF outcome = "match" THEN "SUCCESS"
    ELSE IF attempts <= max THEN "RETRY"
    ELSE "ESCALATE"

\* Verification Policy, from the specification
decide(outcome, attempts, max) ==
    IF outcome = "match" THEN "SUCCESS"
    ELSE IF attempts < max THEN "RETRY"
    ELSE "ESCALATE"

capture_outcome(result) == IF result.success THEN "match" ELSE "no_match"

\* the FaceRecognition transitions, from the specification: the session a
\* capture result leaves
face_recognition_result(session, result) ==
    LET decision ==
            decide(capture_outcome(result), session.verification_attempts,
                   max_verification_attempts)
    IN  IF decision = "SUCCESS"
        THEN [transition_to(session, EMPLOYEE_VERIFIED) EXCEPT
                 !.employee_data = result.employee,
                 !.verification_attempts = 0]
        ELSE IF decision = "RETRY"
        THEN [session EXCEPT !.verification_attempts = @ + 1]
        ELSE [transition_to(session, MANUAL_VERIFICATION) EXCEPT
                 !.verification_attempts = 0]

\* the signal a capture result makes the state machine post
face_recognition_signal(session, result) ==
    IF decide(capture_outcome(result), session.verification_attempts,
              max_verification_attempts) = "RETRY"
    THEN None
    ELSE "stop_face_capture"

\* POST /flow/face_recognition: the client reports a captured frame
FaceRecognitionRequest(image) ==
    /\ agent_state.is_awake
    /\ HasFlowSession
    /\ LET s == agent_state.session_id
           result == verify_employee_face(image)
           name == face_recognition_signal(flow_sessions[s], result)
       IN  /\ flow_sessions[s].current_state = FACE_RECOGNITION
           /\ flow_sessions' =
               [flow_sessions EXCEPT ![s] = face_recognition_result(@, result)]
           /\ Post(name, s)
    /\ UNCHANGED <<registry, agent_state, otp_store, host_notification>>
    /\ ObserveFlow(IF verify_employee_face(image).success
                   THEN {} ELSE {agent_state.session_id})
    /\ heard' = NoUtterance
    /\ matcher_error' = (image.kind = "error")

----------------------------------------------------------------------------
(* Employee branch: manual verification with a one-time code *)

NoOtp == [otp |-> None, created_at |-> 0, attempts |-> 0]

\* OTPManager.generate_otp: the store after issuing `otp` for `phone`
generate_otp(store, phone, otp) ==
    [store EXCEPT ![phone] = [otp |-> otp, created_at |-> 0, attempts |-> 0]]

\* verify_otp without its attempt check
verify_otp_ignores_budget(store, phone, otp) ==
    /\ store[phone] # NoOtp
    /\ ~(store[phone].created_at > otp_expiry)
    /\ store[phone].otp = otp

\* OTPManager.verify_otp: its return value
verify_otp(store, phone, otp) ==
    /\ store[phone] # NoOtp
    /\ ~(store[phone].created_at > otp_expiry)
    /\ ~(store[phone].attempts >= max_otp_attempts)
    /\ store[phone].otp = otp

\* OTPManager.verify_otp: the store it leaves
verify_otp_store(store, phone, otp) ==
    IF store[phone] = NoOtp THEN store
    ELSE IF store[phone].created_at > otp_expiry
    THEN [store EXCEPT ![phone] = NoOtp]
    ELSE IF store[phone].attempts >= max_otp_attempts
    THEN [store EXCEPT ![phone] = NoOtp]
    ELSE IF store[phone].otp = otp
    THEN [store EXCEPT ![phone] = NoOtp]
    ELSE [store EXCEPT ![phone].attempts = @ + 1]

\* POST /employee_verify without a code, from the specification: name and
\* identifier are supplied, a code is issued and the session awaits it
SubmitCredentials(employee_id, otp) ==
    /\ agent_state.is_awake
    /\ HasFlowSession
    /\ LET s == agent_state.session_id
           employee == get_employee_by_id(employee_id)
       IN  /\ flow_sessions[s].current_state = MANUAL_VERIFICATION
           /\ employee # NoEmployee
           /\ otp_store' = generate_otp(otp_store, employee.phone, otp)
           /\ flow_sessions' =
               [flow_sessions EXCEPT ![s] = transition_to(@, CREDENTIAL_CHECK)]
           /\ posted' = NoPost
    /\ UNCHANGED <<registry, agent_state, signal, host_notification>>
    /\ Observe({})

\* the CredentialCheck transition, from the specification
credential_check_result(session, employee, verified) ==
    IF verified
    THEN [transition_to(session, EMPLOYEE_VERIFIED) EXCEPT !.employee_data = employee]
    ELSE session

\* POST /employee_verify with a code
SubmitOtp(employee_id, otp) ==
    /\ agent_state.is_awake
    /\ HasFlowSession
    /\ LET s == agent_state.session_id
           employee == get_employee_by_id(employee_id)
       IN  /\ flow_sessions[s].current_state = CREDENTIAL_CHECK
           /\ employee # NoEmployee
           /\ otp_store' = verify_otp_store(otp_store, employee.phone, otp)
           /\ flow_sessions' =
               [flow_sessions EXCEPT ![s] =
                   credential_check_result(@, employee,
                       verify_otp(otp_store, employee.phone, otp))]
           /\ posted' = NoPost
    /\ UNCHANGED <<registry, agent_state, signal, host_notification>>
    /\ Observe({})

\* the tool storing the employee without the transition
verify_employee_credentials_no_transition(session, employee) ==
    [session EXCEPT !.employee_data = employee]

\* the verify_employee_credentials function tool: the session it saves
verify_employee_credentials(session, employee) ==
    transition_to([session EXCEPT !.employee_data = employee], EMPLOYEE_VERIFIED)

\* the agent calls the verify_employee_credentials tool
VerifyEmployeeCredentialsTool(employee_id) ==
    /\ agent_state.is_awake
    /\ get_employee_by_id(employee_id) # NoEmployee
    /\ HasFlowSession
    /\ LET s == agent_state.session_id
       IN  /\ flow_sessions' =
               [flow_sessions EXCEPT ![s] =
                   verify_employee_credentials(@, get_employee_by_id(employee_id))]
           /\ posted' = NoPost
    /\ UNCHANGED <<registry, agent_state, otp_store, signal, host_notification>>
    /\ Observe({})

----------------------------------------------------------------------------
(* Visitor branch *)

RequiredVisitorFields == {"name", "phone", "purpose", "host"}

\* the field maps a visitor form or the agent may submit
VisitorForm(name, phone, purpose, host) ==
    [name |-> name, phone |-> phone, purpose |-> purpose, host |-> host]

VisitorForms ==
    {VisitorForm("John Doe", "+1555", "Meeting", "Jane"),
     VisitorForm("John Doe", "+1555", "Meeting", ""),
     VisitorForm("John Doe", "", "", ""),
     VisitorForm("", "", "", "Jane"),
     VisitorForm("", "", "", "")}

\* visitorData accumulates: a submitted field replaces the stored one
merge_visitor_data(stored, form) ==
    [f \in RequiredVisitorFields |-> IF form[f] # "" THEN form[f] ELSE stored[f]]

visitor_data_complete(data) == \A f \in RequiredVisitorFields : data[f] # ""

\* the VisitorInfoCollection transition, from the specification
visitor_info_result(session, form) ==
    LET merged == merge_visitor_data(session.visitor_data, form)
        stored == [session EXCEPT !.visitor_data = merged]
    IN  IF visitor_data_complete(merged)
        THEN transition_to(stored, VISITOR_FACE_CAPTURE)
        ELSE stored

visitor_info_signal(session, form) ==
    IF visitor_data_complete(merge_visitor_data(session.visitor_data, form))
    THEN "start_visitor_photo"
    ELSE None

\* POST /flow/visitor_info
SubmitVisitorInfo(form) ==
    /\ agent_state.is_awake
    /\ HasFlowSession
    /\ LET s == agent_state.session_id
           name == visitor_info_signal(flow_sessions[s], form)
       IN  /\ flow_sessions[s].current_state = VISITOR_INFO_COLLECTION
           /\ flow_sessions' =
               [flow_sessions EXCEPT ![s] = visitor_info_result(@, form)]
           /\ Post(name, s)
    /\ UNCHANGED <<registry, agent_state, otp_store, host_notification>>
    /\ Observe({})

\* a transition that waits for a successful photo
visitor_photo_result_gated(session, success) ==
    IF success THEN transition_to(session, HOST_NOTIFICATION) ELSE session

\* the VisitorFaceCapture transition, from the specification: any capture
\* acknowledgement moves on and host paging starts
visitor_photo_result(session, success) ==
    transition_to(session, HOST_NOTIFICATION)

\* POST /flow/visitor_photo
VisitorPhotoRequest(success) ==
    /\ agent_state.is_awake
    /\ HasFlowSession
    /\ LET s == agent_state.session_id
       IN  /\ flow_sessions[s].current_state = VISITOR_FACE_CAPTURE
           /\ flow_sessions' =
               [flow_sessions EXCEPT ![s] = visitor_photo_result(@, success)]
           /\ host_notification' = [host_notification EXCEPT ![s] = "pending"]
           /\ posted' = NoPost
    /\ UNCHANGED <<registry, agent_state, otp_store, signal>>
    /\ Observe({})

\* notify_host: found and paged, host not found, or an exception that is logged
NotifyOutcomes == {"sent", "host_not_found", "error"}

\* the HostNotification transition, from the specification
host_notification_result(session, outcome) ==
    transition_to(session, FLOW_END)

\* the paging attempt started by the photo acknowledgement completes
HostNotificationDone(s, outcome) ==
    /\ s \in registry
    /\ flow_sessions[s].current_state = HOST_NOTIFICATION
    /\ host_notification[s] = "pending"
    /\ flow_sessions' =
        [flow_sessions EXCEPT ![s] = host_notification_result(@, outcome)]
    /\ host_notification' = [host_notification EXCEPT ![s] = outcome]
    /\ posted' = NoPost
    /\ UNCHANGED <<registry, agent_state, otp_store, signal>>
    /\ Observe({})

\* a register_visitor that also marks the session as a visitor's
register_visitor_marks_visitor(session, visitor_data) ==
    transition_to([session EXCEPT !.visitor_data = visitor_data,
                                  !.user_type = "visitor"],
                  HOST_NOTIFICATION)

\* the register_visitor function tool: the session it saves
register_visitor(session, visitor_data) ==
    transition_to([session EXCEPT !.visitor_data = visitor_data], HOST_NOTIFICATION)

\* the agent calls the register_visitor tool; name is its only required argument
\* and visitor_management.register_visitor pages the host before it returns
RegisterVisitorTool(form, outcome) ==
    /\ agent_state.is_awake
    /\ form.name # ""
    /\ HasFlowSession
    /\ LET s == agent_state.session_id
       IN  /\ flow_sessions' =
               [flow_sessions EXCEPT ![s] = register_visitor(@, form)]
           /\ host_notification' = [host_notification EXCEPT ![s] = outcome]
           /\ posted' = NoPost
    /\ UNCHANGED <<registry, agent_state, otp_store, signal>>
    /\ Observe({})

----------------------------------------------------------------------------
(* Time, auto-sleep, session end, the client's acknowledgement *)

Min(a, b) == IF a < b THEN a ELSE b

age_activity(st, d) ==
    IF st.last_activity = NoActivity THEN st
    ELSE [st EXCEPT !.last_activity = Min(@ + d, MaxIdle)]

age_otp(store, d) ==
    [p \in Phones |->
        IF store[p] = NoOtp THEN NoOtp
        ELSE [store[p] EXCEPT !.created_at = Min(@ + d, MaxOtpAge)]]

\* the wall clock moves on by d seconds
AdvanceTime(d) ==
    /\ agent_state' = age_activity(agent_state, d)
    /\ otp_store' = age_otp(otp_store, d)
    /\ <<agent_state', otp_store'>> # <<agent_state, otp_store>>
    /\ posted' = NoPost
    /\ UNCHANGED <<registry, flow_sessions, signal, host_notification>>
    /\ Observe({})

\* clear_session, from the specification: back to the initial state, the
\* collected visitor data kept
clear_session(session) ==
    [session EXCEPT !.current_state = IDLE, !.verification_attempts = 0]

\* one round of check_auto_sleep_task that finds the agent idle for too long
check_auto_sleep_task ==
    /\ agent_state.is_awake
    /\ idle_exceeded(agent_state)
    /\ LET slept == check_auto_sleep(agent_state)
       IN  /\ agent_state' = slept
           /\ IF slept.session_id # None
              THEN /\ flow_sessions' =
                       [flow_sessions EXCEPT ![slept.session_id] = clear_session(@)]
                   /\ signal' = clear_signal(signal)
              ELSE UNCHANGED <<flow_sessions, signal>>
    /\ posted' = NoPost
    /\ UNCHANGED <<registry, otp_store, host_notification>>
    /\ Observe({})

\* an end that leaves the wake state behind
flow_end_keeps_wake_state(s) ==
    /\ registry' = registry \ {s}
    /\ flow_sessions' = [flow_sessions EXCEPT ![s] = NewFlowSession]
    /\ agent_state' = agent_state
    /\ signal' = clear_signal(signal)
    /\ host_notification' = [host_notification EXCEPT ![s] = None]
    /\ posted' = NoPost
    /\ UNCHANGED otp_store
    /\ Observe({})

\* POST /flow/end, from the specification: the session, its wake state and the
\* pending signal go together
flow_end(s) ==
    /\ registry' = registry \ {s}
    /\ flow_sessions' = [flow_sessions EXCEPT ![s] = NewFlowSession]
    /\ agent_state' =
        IF agent_state.session_id = s THEN NewAgentState ELSE agent_state
    /\ signal' = clear_signal(signal)
    /\ host_notification' = [host_notification EXCEPT ![s] = None]
    /\ posted' = NoPost
    /\ UNCHANGED otp_store
    /\ Observe({})

\* POST /clear_signal: the client acknowledges the signal it handled
ClearSignalRequest ==
    /\ signal' = clear_signal(signal)
    /\ posted' = NoPost
    /\ UNCHANGED <<registry, flow_sessions, agent_state, otp_store,
                   host_notification>>
    /\ Observe({})

TimeSteps == {TimeStep}

Next ==
    \/ \E s \in Rooms, text \in Texts : WakeUtterance(s, text)
    \/ \E s \in Rooms, user_type \in UserTypes : ClassifyUtterance(s, user_type)
    \/ \E s \in Rooms : OtherUtterance(s)
    \/ \E image \in Images : FaceRecognitionRequest(image)
    \/ \E id \in SubmittedIds : SubmitCredentials(id, IssuedOtp)
    \/ \E id \in SubmittedIds, otp \in OtpCodes : SubmitOtp(id, otp)
    \/ \E id \in SubmittedIds : VerifyEmployeeCredentialsTool(id)
    \/ \E form \in VisitorForms : SubmitVisitorInfo(form)
    \/ \E success \in BOOLEAN : VisitorPhotoRequest(success)
    \/ \E s \in Rooms, outcome \in NotifyOutcomes : HostNotificationDone(s, outcome)
    \/ \E form \in VisitorForms, outcome \in NotifyOutcomes : RegisterVisitorTool(form, outcome)
    \/ \E d \in TimeSteps : AdvanceTime(d)
    \/ check_auto_sleep_task
    \/ \E s \in Rooms : flow_end(s)
    \/ ClearSignalRequest

Spec == Init /\ [][Next]_vars

\* notify_host is awaited and returns on every path, so a paging attempt that
\* has started completes
FairSpec ==
    Spec /\ WF_vars(\E s \in Rooms, outcome \in NotifyOutcomes :
                        HostNotificationDone(s, outcome))

----------------------------------------------------------------------------
(* Steps named by the properties below *)

\* session s handles a capture result that reports no match
NoMatchResult(s) ==
    /\ agent_state.session_id = s
    /\ \E image \in Images :
        /\ ~verify_employee_face(image).success
        /\ FaceRecognitionRequest(image)

\* session s handles a capture result that reports a match with identity id
MatchResult(s, id) ==
    /\ agent_state.session_id = s
    /\ \E image \in Images :
        /\ image.kind = "match"
        /\ image.emp = id
        /\ FaceRecognitionRequest(image)

\* session s handles a one-time code that verifies
OtpVerified(s) ==
    /\ agent_state.session_id = s
    /\ \E id \in SubmittedIds, otp \in OtpCodes :
        /\ verify_otp(otp_store, get_employee_by_id(id).phone, otp)
        /\ SubmitOtp(id, otp)

\* the step takes session s into state st
Enters(s, st) ==
    /\ flow_sessions[s].current_state # st
    /\ flow_sessions'[s].current_state = st

----------------------------------------------------------------------------
(* Properties *)

\* C1: whenever a step has posted start_face_capture for a session, that
\* session's user type is employee; no visitor session has it posted.
C1_FaceCaptureOnlyForEmployee ==
    posted.name = "start_face_capture" =>
        /\ flow_sessions[posted.session].user_type = "employee"
        /\ flow_sessions[posted.session].user_type # "visitor"

C1_Witness ==
    /\ posted.name = "start_face_capture"
    /\ signal = "start_face_capture"
    /\ flow_sessions[posted.session].current_state = FACE_RECOGNITION

\* C2: in every state the user type is set whenever the session is in
\* FaceRecognition, VisitorInfoCollection or VisitorFaceCapture, and a session
\* in FaceRecognition has user type employee.
C2_UserTypeBeforeCapture ==
    \A s \in SessionIds :
        /\ flow_sessions[s].current_state \in
               {FACE_RECOGNITION, VISITOR_INFO_COLLECTION, VISITOR_FACE_CAPTURE}
           => flow_sessions[s].user_type # None
        /\ flow_sessions[s].current_state = FACE_RECOGNITION
           => flow_sessions[s].user_type = "employee"

\* a session still in FaceRecognition when the agent has been put to sleep
C2_Witness ==
    \E s \in SessionIds :
        /\ flow_sessions[s].current_state = FACE_RECOGNITION
        /\ flow_sessions[s].verification_attempts > 0
        /\ ~agent_state.is_awake

\* C3: once a classified employee session has handled 3 consecutive no-match
\* capture results, its state is ManualVerification and no visitor-path signal
\* is pending.
C3_ThreeNoMatchesEscalate ==
    \A s \in SessionIds :
        no_match_run[s] = max_verification_attempts =>
            /\ flow_sessions[s].current_state = MANUAL_VERIFICATION
            /\ signal \notin {"start_visitor_info", "start_visitor_photo"}

\* C4: verification_attempts stays within 0..max, and a no-match result that
\* finds it at the maximum takes the session to ManualVerification without a
\* further increment.
AttemptsInRange ==
    \A s \in SessionIds :
        /\ flow_sessions[s].verification_attempts >= 0
        /\ flow_sessions[s].verification_attempts <= max_verification_attempts

C4_AttemptsBounded ==
    /\ []AttemptsInRange
    /\ [][\A s \in SessionIds :
            (/\ NoMatchResult(s)
             /\ flow_sessions[s].verification_attempts = max_verification_attempts)
            => /\ flow_sessions'[s].current_state = MANUAL_VERIFICATION
               /\ flow_sessions'[s].verification_attempts
                      <= flow_sessions[s].verification_attempts]_vars

\* the fourth no-match result has escalated the session
C4_Witness ==
    \E s \in SessionIds :
        /\ no_match_run[s] = max_verification_attempts + 1
        /\ flow_sessions[s].current_state = MANUAL_VERIFICATION

\* C5: while a session stays in FaceRecognition verification_attempts never
\* decreases; every step that enters ManualVerification or EmployeeVerified
\* leaves it at 0; and no other step of a live session resets it.
C5_AttemptsResetOnEntry ==
    [][\A s \in SessionIds :
        /\ (/\ flow_sessions[s].current_state = FACE_RECOGNITION
            /\ flow_sessions'[s].current_state = FACE_RECOGNITION)
           => flow_sessions'[s].verification_attempts
                 >= flow_sessions[s].verification_attempts
        /\ (Enters(s, MANUAL_VERIFICATION) \/ Enters(s, EMPLOYEE_VERIFIED))
           => flow_sessions'[s].verification_attempts = 0
        /\ (/\ flow_sessions[s].verification_attempts > 0
            /\ flow_sessions'[s].verification_attempts = 0
            /\ s \in registry')
           => (Enters(s, MANUAL_VERIFICATION) \/ Enters(s, EMPLOYEE_VERIFIED))]_vars

\* C6: employee_data becomes non-null only in a step that leaves the session in
\* EmployeeVerified, so a session that has not entered EmployeeVerified has
\* no employee record.
C6_EmployeeRecordOnlyWhenVerified ==
    [][\A s \in SessionIds :
        (/\ flow_sessions[s].employee_data = NoEmployee
         /\ flow_sessions'[s].employee_data # NoEmployee)
        => flow_sessions'[s].current_state = EMPLOYEE_VERIFIED]_vars

\* a session that came through ManualVerification holds an employee record
C6_Witness ==
    \E s \in SessionIds :
        /\ flow_sessions[s].employee_data # NoEmployee
        /\ flow_sessions[s].current_state = EMPLOYEE_VERIFIED
        /\ manual_entered[s]

\* C7: a step takes a session into EmployeeVerified only from FaceRecognition
\* on a capture result that reports a match, or from CredentialCheck on a
\* one-time code that verifies.
C7_VerifiedOnlyByMatchOrCode ==
    [][\A s \in SessionIds :
        Enters(s, EMPLOYEE_VERIFIED) =>
            \/ /\ flow_sessions[s].current_state = FACE_RECOGNITION
               /\ \E id \in EncodedIds : MatchResult(s, id)
            \/ /\ flow_sessions[s].current_state = CREDENTIAL_CHECK
               /\ OtpVerified(s)]_vars

AwaitingHost(s) ==
    /\ flow_sessions[s].current_state = HOST_NOTIFICATION
    /\ host_notification[s] = "pending"

C10_AutoSleepResetsFlow ==
    [][check_auto_sleep_task =>
        /\ ~agent_state'.is_awake
        /\ \A s \in SessionIds :
               agent_state.session_id = s
               => flow_sessions'[s].current_state = IDLE
        /\ signal' = None]_vars

-----------------------------------------------------------------------------
(* The client: VideoCapture polls the mailbox and scans faces *)

ClientModes == {"idle", "employee", "visitor"}

ClientStatus == {"idle", "scanning", "verified", "manual_input", "failed"}

\* what the server answers to a submitted frame, as the client tells them apart
FrameOutcomes == {"success", "manual_input", "no_match", "error"}

\* the state the polling effect and scanFace depend on
Render(c) == <<c.mode, c.scanning_enabled, c.status>>

\* the polling effect runs again, and sets a new interval, after a render that
\* changed one of its dependencies
Rendered(old, new) ==
    [new EXCEPT !.polling = new.polling \/ Render(old) # Render(new)]

setEmployeeMode(c) ==
    [c EXCEPT !.faceScanAttempts = 0, !.mode = "employee",
              !.scanning_enabled = TRUE, !.status = "idle"]

setVisitorMode(c) ==
    [c EXCEPT !.faceScanAttempts = 0, !.mode = "visitor",
              !.scanning_enabled = FALSE, !.status = "idle"]

\* setIdleMode also clears the polling interval and drops the camera stream
setIdleMode(c) ==
    [c EXCEPT !.faceScanAttempts = 0, !.polling = FALSE, !.mode = "idle",
              !.scanning_enabled = FALSE, !.status = "idle",
              !.camera_live = FALSE]

\* the scanFace closure of the render with this mode and status
Closure(mode, status) == [mode |-> mode, status |-> status]

\* the instance in the slot: posts are numbered, the slot holds the latest
SlotInstance == IF signal = None THEN 0 ELSE client_log.posts

\* every step starts with the frame mark and the directive mark down
Logged(log) == [log EXCEPT !.submitted = FALSE, !.directive = FALSE]

\* the log after a call of setEmployeeMode
Activated(log) ==
    [log EXCEPT !.activations = Min(@ + 1, MaxActivations), !.no_match_frames = 0]

\* the core posts a signal (the post_signal calls of the flow handlers)
CorePost(name) ==
    /\ client_log.posts < MaxPosts
    /\ Post(name, "roomA")
    /\ client_log' = Logged([client_log EXCEPT !.posts = @ + 1])
    /\ UNCHANGED <<core_vars, client, polls, scan_timers>>

\* an interval tick: checkSignal starts and GET /get_signal answers with what
\* the slot holds; nothing waits for the previous call to finish, and a call
\* that read an empty slot is over (the closure is kept for the one name whose
\* handler uses it)
PollRead(k) ==
    /\ client.polling
    /\ polls[k] = NoPoll
    /\ \A j \in 1..MaxPolls : j < k => polls[j] # NoPoll
    /\ polls' = [polls EXCEPT ![k] =
                    IF peek_signal(signal) = None
                    THEN NoPoll
                    ELSE [phase |-> "read", name |-> peek_signal(signal),
                          id |-> SlotInstance,
                          mode |-> IF peek_signal(signal) = "start_face_capture"
                                   THEN client.mode ELSE "idle",
                          status |-> IF peek_signal(signal) = "start_face_capture"
                                     THEN client.status ELSE "idle"]]
    /\ client_log' = Logged([client_log EXCEPT !.seen = @ \cup ({SlotInstance} \ {0})])
    /\ posted' = NoPost
    /\ UNCHANGED <<core_vars, signal, client, scan_timers>>

\* checkSignal dispatches on the name it read; setEmployeeMode arms
\* scanFace(true) of the render the call started in; setIdleMode calls
\* onVerified(undefined, undefined, ''), for which handleVerified sends the
\* face_verified directive, and whether the parent then hands down a new
\* onVerified (which would set the interval again) is up to useChat
PollHandle(k) ==
    LET p == polls[k]
        timers == IF p.name = "start_face_capture"
                  THEN scan_timers \cup {Closure(p.mode, p.status)}
                  ELSE scan_timers
        handled == CASE p.name = "start_face_capture" -> setEmployeeMode(client)
                     [] p.name = "stop_face_capture" -> setIdleMode(client)
                     [] p.name \in {"start_visitor_info", "start_visitor_photo"}
                            -> setVisitorMode(client)
                     [] OTHER -> client
    IN  /\ p.phase = "read"
        /\ Cardinality(timers) <= MaxTimers
        /\ \E parent_rerenders \in BOOLEAN :
                client' = [Rendered(client, handled) EXCEPT !.polling =
                              @ \/ (parent_rerenders /\ p.name = "stop_face_capture")]
        /\ scan_timers' = timers
        /\ polls' = [polls EXCEPT ![k] = [p EXCEPT !.phase = "clearing"]]
        /\ client_log' =
              LET log == Logged(client_log)
              IN  IF p.name = "start_face_capture"
                  THEN [Activated(log) EXCEPT !.got_start = TRUE]
                  ELSE IF p.name = "stop_face_capture"
                  THEN [log EXCEPT !.directive = TRUE]
                  ELSE log
        /\ posted' = NoPost
        /\ UNCHANGED <<core_vars, signal>>

\* checkSignal ends with POST /clear_signal, which empties the slot
PollClear(k) ==
    /\ polls[k].phase = "clearing"
    /\ signal' = clear_signal(signal)
    /\ posted' = NoPost
    /\ polls' = [polls EXCEPT ![k] = NoPoll]
    /\ client_log' = Logged([client_log EXCEPT !.cleared = @ \cup ({SlotInstance} \ {0})])
    /\ UNCHANGED <<core_vars, client, scan_timers>>

\* the "Employee Mode" button: onClick={setEmployeeMode}
ClickEmployeeMode ==
    LET timers == scan_timers \cup {Closure(client.mode, client.status)}
    IN  /\ Cardinality(timers) <= MaxTimers
        /\ client' = Rendered(client, setEmployeeMode(client))
        /\ scan_timers' = timers
        /\ client_log' = Activated(Logged(client_log))
        /\ posted' = NoPost
        /\ UNCHANGED <<core_vars, signal, polls>>

\* the client state after the answer to a frame
scan_result(c, outcome) ==
    CASE outcome = "success" ->
            [c EXCEPT !.faceScanAttempts = 0, !.status = "verified",
                      !.scanning_enabled = FALSE]
      [] outcome = "manual_input" ->
            [c EXCEPT !.faceScanAttempts = maxFaceScanAttempts,
                      !.status = "manual_input", !.scanning_enabled = FALSE]
      [] outcome = "no_match" ->
            [c EXCEPT !.faceScanAttempts = Min(@ + 1, MaxFaceScans), !.status = "failed",
                      !.scanning_enabled =
                          IF c.faceScanAttempts + 1 < maxFaceScanAttempts
                          THEN @ ELSE FALSE]
      [] OTHER -> [c EXCEPT !.status = "failed"]

\* a scanFace(true) timer fires: the closure's mode and status decide whether a
\* frame goes to /flow/face_recognition; a camera that is not live re-arms the
\* timer, and so does a no-match below the maximum
ScanTimer(closure, outcome) ==
    /\ closure \in scan_timers
    /\ IF closure.mode = "visitor" \/ closure.status = "verified"
       THEN /\ scan_timers' = scan_timers \ {closure}
            /\ client' = client
            /\ client_log' = Logged(client_log)
       ELSE IF ~client.camera_live
       THEN /\ scan_timers' = scan_timers
            /\ client' = Rendered(client, [client EXCEPT !.status = "idle"])
            /\ client_log' = Logged(client_log)
       ELSE /\ client' = Rendered(client, scan_result(client, outcome))
            /\ scan_timers' =
                  IF outcome = "no_match"
                     /\ client.faceScanAttempts + 1 < maxFaceScanAttempts
                  THEN scan_timers
                  ELSE scan_timers \ {closure}
            /\ client_log' =
                  [client_log EXCEPT
                      !.submitted = TRUE,
                      !.directive = (outcome = "success"),
                      !.no_match_frames =
                          IF outcome = "no_match" THEN Min(@ + 1, MaxFrames) ELSE @]
    /\ posted' = NoPost
    /\ UNCHANGED <<core_vars, signal, polls>>

ClientNext ==
    \/ \E name \in SignalNames : CorePost(name)
    \/ \E k \in 1..MaxPolls : PollRead(k)
    \/ \E k \in 1..MaxPolls : PollHandle(k)
    \/ \E k \in 1..MaxPolls : PollClear(k)
    \/ ClickEmployeeMode
    \/ \E closure \in scan_timers, outcome \in FrameOutcomes :
            ScanTimer(closure, outcome)

ClientSpec == Init /\ [][ClientNext]_vars

\* a running interval keeps ticking and a checkSignal call that has its answer
\* runs to its end, whatever else goes on; posts, clicks and scans need not
\* happen
ClientFairSpec ==
    /\ ClientSpec
    /\ \A k \in 1..MaxPolls :
          /\ SF_vars(PollRead(k))
          /\ SF_vars(PollHandle(k))
          /\ SF_vars(PollClear(k))


\* C11: consume is idempotent and peek after consume returns null: in every
\* state a second consume changes nothing the first has left, a consume step
\* leaves the slot empty and the sessions untouched, and the slot stays empty
\* until the next post.
ConsumeTwice ==
    /\ clear_signal(clear_signal(signal)) = clear_signal(signal)
    /\ peek_signal(clear_signal(signal)) = None

WakePhraseTexts ==
    {<<"H","e","y"," ","C","l","a","r","a">>, <<"C","L","A","R","A","!">>}

Fresh(s) ==
    /\ flow_sessions[s] = NewFlowSession
    /\ host_notification[s] = None
    /\ agent_state.session_id # s

\* C15: end removes the session, its wake state and the pending signal in one
\* step; an end for an id that has no session changes nothing; and a session
\* created later for the id starts fresh.
C15_EndIdempotent ==
    /\ [](\A s \in SessionIds : s \notin registry => Fresh(s))
    /\ [][\A s \in SessionIds :
            /\ flow_end(s)
               => /\ s \notin registry'
                  /\ Fresh(s)'
                  /\ peek_signal(signal') = None
                  /\ (s \notin registry /\ signal = None)
                     => UNCHANGED <<registry, flow_sessions, agent_state,
                                    otp_store, signal, host_notification>>
            /\ (s \notin registry /\ s \in registry')
               => flow_sessions'[s] \in
                     {NewFlowSession,
                      transition_to(NewFlowSession, USER_CLASSIFICATION)}]_vars

\* a session that had a one-time code issued has been ended
C15_Witness ==
    /\ registry = {}
    /\ \E p \in Phones : otp_store[p] # NoOtp
    /\ ~agent_state.is_awake

C19_CodeWithinBudget ==
    [][\A id \in SubmittedIds, otp \in OtpCodes :
        SubmitOtp(id, otp) =>
            LET s == agent_state.session_id
                entry == otp_store[get_employee_by_id(id).phone]
                good == /\ entry.otp = otp
                        /\ entry.created_at <= otp_expiry
                        /\ entry.attempts < max_otp_attempts
            IN  /\ flow_sessions'[s].current_state = EMPLOYEE_VERIFIED <=> good
                /\ ~good => /\ flow_sessions'[s] = flow_sessions[s]
                            /\ flow_sessions'[s].current_state = CREDENTIAL_CHECK
                            /\ s \in registry'
                            /\ agent_state' = agent_state]_vars

\* the budget of a session in CredentialCheck is used up
C19_Witness ==
    \E s \in SessionIds, p \in Phones :
        /\ flow_sessions[s].current_state = CREDENTIAL_CHECK
        /\ otp_store[p].attempts = max_otp_attempts
        /\ otp_store[p].created_at <= otp_expiry

\* C20: a visitor session in VisitorFaceCapture, HostNotification or End
\* holds all four required fields, and a submission that leaves one missing
\* keeps the session in VisitorInfoCollection and posts no start_visitor_photo.
VisitorDataComplete ==
    \A s \in SessionIds :
        (/\ flow_sessions[s].user_type = "visitor"
         /\ flow_sessions[s].current_state \in
                {VISITOR_FACE_CAPTURE, HOST_NOTIFICATION, FLOW_END})
        => visitor_data_complete(flow_sessions[s].visitor_data)

C20_VisitorFieldsRequired ==
    /\ []VisitorDataComplete
    /\ [][\A form \in VisitorForms :
            (/\ SubmitVisitorInfo(form)
             /\ ~visitor_data_complete(
                    flow_sessions'[agent_state.session_id].visitor_data))
            => /\ flow_sessions'[agent_state.session_id].current_state
                     = VISITOR_INFO_COLLECTION
               /\ posted'.name # "start_visitor_photo"]_vars

C18_ScanOnlyAfterSignal ==
    [][client_log'.submitted
        => /\ client_log.got_start
           /\ client.mode = "employee"]_vars

-----------------------------------------------------------------------------
(* Two rooms connected to the same backend *)

\* the two rooms speak, are classified, show their face and leave; manual
\* verification and the visitor branch are left out
TwoRoomNext ==
    \/ \E s \in SessionIds, text \in Texts : WakeUtterance(s, text)
    \/ \E s \in SessionIds, user_type \in UserTypes : ClassifyUtterance(s, user_type)
    \/ \E s \in SessionIds : OtherUtterance(s)
    \/ \E s \in SessionIds : flow_end(s)
    \/ \E image \in Images : FaceRecognitionRequest(image)
    \/ \E d \in TimeSteps : AdvanceTime(d)
    \/ check_auto_sleep_task
    \/ ClearSignalRequest

TwoRoomSpec == Init /\ [][TwoRoomNext]_vars

\* a request or utterance of session a
OperationOn(a) ==
    \/ \E text \in Texts : WakeUtterance(a, text)
    \/ \E user_type \in UserTypes : ClassifyUtterance(a, user_type)
    \/ OtherUtterance(a)
    \/ flow_end(a)

\* what GET /get_signal, which carries no session id, answers to the client
\* of session b
PendingFor(b) == peek_signal(signal)

\* the agent is awake for session b
AwakeFor(b) == agent_state.is_awake /\ agent_state.session_id = b

\* C16: an operation on one session leaves the flow state, the counters, the
\* wake state and the pending signal of every other session unchanged, so a
\* signal posted for A is never returned by a read for B.
C16_SessionsIndependent ==
    [][\A a, b \in SessionIds :
        (a # b /\ OperationOn(a))
        => /\ flow_sessions'[b] = flow_sessions[b]
           /\ (b \in registry') = (b \in registry)
           /\ AwakeFor(b)' = AwakeFor(b)
           /\ PendingFor(b)' = PendingFor(b)]_vars

\* the user types handle_user_classification has no branch for
UnclassifiedTypes == UserTypes \ {"employee", "visitor"}

\* the state, user type and counter of session s stay as they are
FlowCoreUnchanged(s) ==
    /\ flow_sessions'[s].current_state = flow_sessions[s].current_state
    /\ flow_sessions'[s].user_type = flow_sessions[s].user_type
    /\ flow_sessions'[s].verification_attempts = flow_sessions[s].verification_attempts

\* C21: an utterance that cannot be classified, or a visitor submission with
\* a required field missing, leaves the state, the user type and the counter
\* of the session as they were and keeps the session; only an end removes a
\* session.
C21_MalformedInputKeepsSession ==
    [][\A s \in SessionIds :
        /\ \A user_type \in UnclassifiedTypes :
                ClassifyUtterance(s, user_type)
                => (FlowCoreUnchanged(s) /\ s \in registry')
        /\ \A form \in VisitorForms :
                (/\ SubmitVisitorInfo(form)
                 /\ agent_state.session_id = s
                 /\ ~visitor_data_complete(flow_sessions'[s].visitor_data))
                => (FlowCoreUnchanged(s) /\ s \in registry')
        /\ (s \in registry /\ s \notin registry') => flow_end(s)]_vars

C22_MatcherErrorCounts ==
    /\ []AttemptsInRange
    /\ [][\A s \in SessionIds, image \in Images :
            (/\ FaceRecognitionRequest(image)
             /\ image.kind = "error"
             /\ agent_state.session_id = s)
            => /\ s \in registry'
               /\ IF flow_sessions[s].verification_attempts < max_verification_attempts
                  THEN /\ flow_sessions'[s].verification_attempts
                            = flow_sessions[s].verification_attempts + 1
                       /\ flow_sessions'[s].current_state = FACE_RECOGNITION
                  ELSE flow_sessions'[s].current_state = MANUAL_VERIFICATION]_vars

\* a matcher failure has just used up an attempt
C22_Witness ==
    \E s \in SessionIds :
        /\ matcher_error
        /\ flow_sessions[s].current_state = FACE_RECOGNITION
        /\ flow_sessions[s].verification_attempts = 2

\* C23: auto-sleep resets the state to Idle and verification_attempts to 0
\* and leaves the visitor data of the session as it was.
C23_AutoSleepKeepsVisitorData ==
    [][\A s \in SessionIds :
        (check_auto_sleep_task /\ agent_state.session_id = s)
        => /\ flow_sessions'[s].current_state = IDLE
           /\ flow_sessions'[s].verification_attempts = 0
           /\ flow_sessions'[s].visitor_data = flow_sessions[s].visitor_data]_vars

\* a capture result, visitor form or visitor registration reaches session s
\* in a state that does not await it
StaleSubmission(s) ==
    /\ agent_state.session_id = s
    /\ \/ /\ \E image \in Images : FaceRecognitionRequest(image)
          /\ flow_sessions[s].current_state # FACE_RECOGNITION
       \/ /\ \E success \in BOOLEAN : VisitorPhotoRequest(success)
          /\ flow_sessions[s].current_state # VISITOR_FACE_CAPTURE
       \/ /\ \/ \E form \in VisitorForms : SubmitVisitorInfo(form)
             \/ \E form \in VisitorForms, outcome \in NotifyOutcomes :
                    RegisterVisitorTool(form, outcome)
          /\ flow_sessions[s].current_state # VISITOR_INFO_COLLECTION

C30_AsleepIsIdle ==
    ~agent_state.is_awake
    => /\ \A s \in SessionIds : flow_sessions[s].current_state = IDLE
       /\ peek_signal(signal) = None

C26_DirectiveOnlyAfterSuccess ==
    [][client_log'.directive
        => /\ client_log'.submitted
           /\ client'.status = "verified"]_vars

\* C27: POST /clear_signal removes the instance its poll has read and no
\* other.
C27_ClearsOnlyWhatWasRead ==
    [][\A k \in 1..MaxPolls :
        (PollClear(k) /\ signal # None) => SlotInstance = polls[k].id]_vars

\* a signal is pending that no poll has read
PendingUnread == signal # None /\ SlotInstance \notin client_log.seen

\* C28: the client keeps polling, so a pending signal is eventually read.
C28_PollingNeverStops == PendingUnread ~> ~PendingUnread

\* C29: after one activation of employee mode at most 3 frames are answered
\* with a no-match; the third no-match disables scanning and arms no retry,
\* and a manual_input answer disables scanning at once.
C29_ThreeFramesPerActivation ==
    /\ [](client_log.activations = 1
            => client_log.no_match_frames <= maxFaceScanAttempts)
    /\ [][\A closure \in scan_timers :
            /\ (/\ ScanTimer(closure, "no_match")
                 /\ client_log'.submitted
                 /\ client.faceScanAttempts = maxFaceScanAttempts - 1)
               => (~client'.scanning_enabled /\ closure \notin scan_timers')
            /\ (ScanTimer(closure, "manual_input") /\ client_log'.submitted)
               => (/\ ~client'.scanning_enabled
                   /\ client'.status = "manual_input"
                   /\ closure \notin scan_timers')]_vars

====
